---- MODULE Spec2Model ----
(***************************************************************************)
(* Progression / lock engine of the arithmetic-practice game              *)
(* (francismail/MCV).  The App component (src/components/Screens.tsx,     *)
(* lines 813-977) holds one AppState value; completeGame, addEmeralds,    *)
(* buyItem and resetProgress replace it through functional updates.       *)
(*                                                                         *)
(* A handler runs to completion and React applies the updaters it queued, *)
(* in the order they were queued, before the next handler runs: one       *)
(* action of this module is one handler together with that commit.        *)
(*                                                                         *)
(* GameScreen (lines 636-725) holds the state of one game session and      *)
(* hands its result to completeGame through a timeout; App reads its       *)
(* AppState and Settings from localStorage when the page loads and writes  *)
(* them back after every change.                                           *)
(***************************************************************************)
EXTENDS Integers, Sequences, FiniteSets, TLC

VARIABLES
    state,           \* App: const [state, setState] (AppState)
    settings,        \* App: const [settings, setSettings]
    currentView,     \* App: const [currentView, setCurrentView]
    activeGame,      \* App: const [activeGame, setActiveGame]
    playMode,        \* App: const [playMode, setPlayMode]
    isTestMode,      \* App: const [isTestMode, setIsTestMode]
    lastGameResult,  \* App: const [lastGameResult, setLastGameResult]
    qIndex,          \* GameScreen: const [qIndex, setQIndex]
    correctCount,    \* GameScreen: const [correctCount, setCorrectCount]
    hearts,          \* GameScreen: const [hearts, setHearts]
    timeLeft,        \* GameScreen: const [timeLeft, setTimeLeft]
    session,         \* number of GameScreen instances mounted so far
    completeTimers,  \* pending setTimeout(() => onComplete(finalResult), 2000)
    quitTimers,      \* pending setTimeout(onQuit, 1600)
    storage,         \* localStorage: mathVillageData and mathVillageSettings
    phase,           \* page: "boot" before App's first render, then "running" or "crashed"
    env,             \* the page's platform: process.env.API_KEY and window.speechSynthesis
    currentSpeechToken,  \* let currentSpeechToken
    activeAudioSource,   \* let activeAudioSource: the token of the speak call that made it
    speakCalls,      \* the calls of speak made so far: where each of them stands
    sources,         \* the AudioBufferSourceNodes that are playing, by the token of their call
    utterances       \* the queue of window.speechSynthesis, by the token of their call

vars ==
    <<state, settings, currentView, activeGame, playMode, isTestMode, lastGameResult,
      qIndex, correctCount, hearts, timeLeft, session, completeTimers, quitTimers,
      storage, phase, env, currentSpeechToken, activeAudioSource, speakCalls, sources,
      utterances>>

uiVars == <<settings, activeGame, playMode, isTestMode>>

\* the local state of the mounted GameScreen
gameVars == <<qIndex, correctCount, hearts, timeLeft>>

\* the module-level state of speak and the audio it produces
speechVars ==
    <<env, currentSpeechToken, activeAudioSource, speakCalls, sources, utterances>>

\* the timeouts a GameScreen scheduled, and the count of its instances
timerVars == <<session, completeTimers, quitTimers>>

(***************************************************************************)
(* Types and constants of the program                                      *)
(***************************************************************************)

\* enum GameType, in the key order of INITIAL_STATE's per-game records
GameKeys == <<"MAKE_TEN", "NUMBER_HOP", "DOUBLES", "COUNT_UP">>

GameType == {GameKeys[i] : i \in 1..Len(GameKeys)}

PlayMode == {"TIMED", "FREE", "STREAK"}

NoGame == "null"

NoResult == [score |-> -1, rating |-> "none", time |-> 0, gameType |-> NoGame]

\* if (newCounts[type] >= 5) newLocks[type] = true
LOCK_THRESHOLD == 5

\* if (newUnlockCounters[gameKey] >= 3) { ...unlock... }
UNLOCK_THRESHOLD == 3

\* level: Math.floor((prev.xp + amount * 5) / 100) + 1
XP_PER_LEVEL == 100

\* xp: prev.xp + (amount * 5)
XP_PER_EMERALD == 5

\* addEmeralds(Math.floor(result.score / 10))
SCORE_PER_EMERALD == 10

\* { score: 100, rating: 'Diamond', time: 0, gameType: type } of a practice session
PRACTICE_SCORE == 100

\* rating: score >= 90 ? 'Diamond' : ...
DIAMOND_SCORE == 90

\* rating: ... : score >= 75 ? 'Iron' : 'Wood'
IRON_SCORE == 75

\* useState(mode === PlayMode.STREAK ? 3 : 99)
STREAK_HEARTS == 3

NO_HEARTS == 99

\* settings.sessionTimer * 60
SECONDS_PER_MINUTE == 60

\* isTest && qIndex + 1 >= 10, and (nextCorrect / 10) * 100
TEST_QUESTIONS == 10

\* score: (nextCorrect / 10) * 100
PERCENT == 100

\* mode === PlayMode.STREAK && nextCorrect >= 20
STREAK_TARGET == 20

\* Object.keys(state.testScores).length >= 4
SWORD_TESTS == 4

SHOP_ITEMS ==
    { [id |-> "wood-tile", price |-> 10],
      [id |-> "stone-tile", price |-> 25],
      [id |-> "steve", price |-> 50],
      [id |-> "zombie", price |-> 100],
      [id |-> "creeper", price |-> 200],
      [id |-> "diamond-block", price |-> 500] }

INITIAL_STATE ==
    [ emeralds |-> 0,
      xp |-> 0,
      level |-> 1,
      testScores |-> << >>,
      unlockedItems |-> <<"base-char">>,
      equippedItem |-> "base-char",
      hearts |-> 3,
      successCounts |-> [g \in GameType |-> 0],
      isLocked |-> [g \in GameType |-> FALSE],
      otherSuccessesSinceLock |-> [g \in GameType |-> 0],
      currentPlayMode |-> "TIMED",
      streak |-> 0 ]

INITIAL_SETTINGS ==
    [ range |-> 10,
      ops |-> "plus",
      sessionTimer |-> 5,
      testTimer |-> 60,
      soundOn |-> TRUE,
      oneHandedMode |-> "off",
      assistMode |-> FALSE ]

(***************************************************************************)
(* localStorage entries and JSON texts                                     *)
(***************************************************************************)

\* the own keys of an AppState object, in the order INITIAL_STATE lists them
StateKeys ==
    <<"emeralds", "xp", "level", "testScores", "unlockedItems", "equippedItem",
      "hearts", "successCounts", "isLocked", "otherSuccessesSinceLock",
      "currentPlayMode", "streak">>

\* the keys of AppState whose values are objects keyed by GameType
ObjectKeys == {"testScores", "successCounts", "isLocked", "otherSuccessesSinceLock"}

\* the own keys of a Settings object, in the order INITIAL_SETTINGS lists them
SettingsKeys ==
    <<"range", "ops", "sessionTimer", "testTimer", "soundOn", "oneHandedMode", "assistMode">>

\* the members "key": value of the JSON text of object o: its own keys, in the
\* order of keys
members(o, keys) ==
    LET ks == SelectSeq(keys, LAMBDA k : k \in DOMAIN o)
    IN [i \in 1..Len(ks) |-> <<ks[i], o[ks[i]]>>]

\* the object that a JSON text with members ms denotes
object(ms) ==
    [k \in {ms[i][1] : i \in 1..Len(ms)} |->
        ms[CHOOSE i \in 1..Len(ms) : ms[i][1] = k][2]]

\* localStorage.getItem(key) of a key that was never set: null
NoEntry == [kind |-> "null", members |-> << >>]

\* a stored empty string
EmptyString == [kind |-> "empty", members |-> << >>]

\* a stored string that is not a JSON text
Garbage == [kind |-> "garbage", members |-> << >>]

\* the stored string "{}"
EmptyObject == [kind |-> "json", members |-> << >>]

\* JSON.stringify(state)
stringifyState(st) ==
    [kind |-> "json",
     members |-> members([k \in DOMAIN st |->
                            IF k \in ObjectKeys THEN members(st[k], GameKeys) ELSE st[k]],
                         StateKeys)]

\* JSON.stringify(settings)
stringifySettings(se) == [kind |-> "json", members |-> members(se, SettingsKeys)]

\* JSON.parse(saved) of the text of an AppState object
parseState(saved) ==
    LET o == object(saved.members)
    IN [k \in DOMAIN o |-> IF k \in ObjectKeys THEN object(o[k]) ELSE o[k]]

\* JSON.parse(saved) of the text of a Settings object
parseSettings(saved) == object(saved.members)

\* App before its first render: there is no AppState and no Settings
NoState == [mounted |-> FALSE]

NoSettings == [mounted |-> FALSE]

\* useState(() => { const saved = localStorage.getItem('mathVillageData');
\*                  return saved ? JSON.parse(saved) : INITIAL_STATE; })
\* JSON.parse throws a SyntaxError on a string that is not a JSON text
loadState(saved) ==
    IF saved.kind \in {"null", "empty"} THEN [threw |-> FALSE, value |-> INITIAL_STATE]
    ELSE IF saved.kind = "garbage" THEN [threw |-> TRUE, value |-> NoState]
    ELSE [threw |-> FALSE, value |-> parseState(saved)]

\* the same initializer for 'mathVillageSettings' and INITIAL_SETTINGS
loadSettings(saved) ==
    IF saved.kind \in {"null", "empty"} THEN [threw |-> FALSE, value |-> INITIAL_SETTINGS]
    ELSE IF saved.kind = "garbage" THEN [threw |-> TRUE, value |-> NoSettings]
    ELSE [threw |-> FALSE, value |-> parseSettings(saved)]

\* the first render shows the Hub, whose tiles read lockedGames[tile.type]
\* with lockedGames = state.isLocked: a TypeError when isLocked is undefined
rendersHub(st) == "isLocked" \in DOMAIN st

\* the two effects of App that follow a render: localStorage.setItem of
\* JSON.stringify(state) and of JSON.stringify(settings)
Persist ==
    storage' = [data |-> stringifyState(state'), settings |-> stringifySettings(settings')]

(***************************************************************************)
(* Bounds of the model                                                     *)
(***************************************************************************)

\* attempts are delivered while xp is below this value
MaxXp == 450

\* scores of the test results delivered to completeGame under Spec
TestScores == {100}

\* under SpecScores: attempts are delivered while xp is below this value
MaxXpScores == 150

\* scores of the test results delivered under SpecScores
ScoreSamples == {0, 80, 100}

\* under SpecShop: attempts are delivered while xp is below this value
MaxXpShop == 250

\* score of the test results delivered under SpecShop
ShopTestScore == 83

\* under SpecReward: the run starts after 0..MaxPrior practice completions
MaxPrior == 6

\* scores of the results delivered under SpecReward
AllScores == 0..100

\* under SpecPurse: attempts are delivered while xp is below this value
MaxXpPurse == 400

\* the game whose completions feed the shop under SpecPurse
PurseGame == "DOUBLES"

\* under SpecLoad: attempts are delivered while xp is below this value
MaxXpLoad == 100

\* under SpecCaller: completions are delivered while xp is below this value
MaxXpCaller == 300

\* under SpecTimer: a GameScreen is mounted while session is below this value
MaxTimerSessions == 2

\* under SpecRest: attempts are delivered while xp is below this value
MaxXpRest == 1000

\* score of the test results delivered under SpecRest
RestTestScore == 0

\* under SpecFair: attempts are delivered while xp is below this value
MaxXpFair == 500

\* under SpecOrder: attempts are delivered while xp is below this value
MaxXpOrder == 550

\* under SpecSword: tests are delivered while xp is below this value
MaxXpSword == 200

\* scores of the test results delivered under SpecSword
SwordScores == {89, 90}

\* under SpecSession: answers are accepted while correctCount is below this value
MaxCorrect == 21

\* under SpecSession: a timeout is scheduled while fewer than this many of its
\* kind are pending
MaxTimers == 2

\* under SpecSession: a GameScreen is mounted while session is below this value
MaxSessions == 2

\* under SpecSession: completions are delivered while xp is below this value
MaxXpSession == 60

(***************************************************************************)
(* completeGame's state updater                                            *)
(***************************************************************************)

\* prev.testScores[type] || 0
currentBest(prev, type) ==
    IF type \in DOMAIN prev.testScores THEN prev.testScores[type] ELSE 0

\* { ...prev.testScores, [type]: result.score }
SetScore(scores, type, score) ==
    [g \in (DOMAIN scores) \cup {type} |-> IF g = type THEN score ELSE scores[g]]

\* variant of testBranch that records the score without comparing it
testBranchAlwaysSet(prev, result) ==
    [prev EXCEPT !.testScores = SetScore(prev.testScores, result.gameType, result.score)]

\* if (result.score >= currentBest) newState.testScores = {...}
testBranch(prev, result) ==
    IF result.score >= currentBest(prev, result.gameType)
    THEN [prev EXCEPT !.testScores = SetScore(prev.testScores, result.gameType, result.score)]
    ELSE prev

\* variant of countAndLock that locks only above the threshold
countAndLockAbove(led, type) ==
    LET n == led.counts[type] + 1
    IN [led EXCEPT !.counts[type] = n,
                   !.locks[type] = IF n > LOCK_THRESHOLD THEN TRUE ELSE @]

\* newCounts[type] = (newCounts[type] || 0) + 1;
\* if (newCounts[type] >= 5) newLocks[type] = true
countAndLock(led, type) ==
    LET n == led.counts[type] + 1
    IN [led EXCEPT !.counts[type] = n,
                   !.locks[type] = IF n >= LOCK_THRESHOLD THEN TRUE ELSE @]

\* variant of unlockStep that leaves every locked game as it is
unlockStepNever(led, gameKey, type) == led

\* variant of unlockStep that unlocks only above the threshold
unlockStepAbove(led, gameKey, type) ==
    IF led.locks[gameKey] /\ gameKey # type
    THEN LET n == led.unlock[gameKey] + 1
         IN IF n > UNLOCK_THRESHOLD
            THEN [led EXCEPT !.locks[gameKey] = FALSE,
                             !.counts[gameKey] = 0,
                             !.unlock[gameKey] = 0]
            ELSE [led EXCEPT !.unlock[gameKey] = n]
    ELSE led

\* variant of unlockStep that clears the success count on every increment
unlockStepEarlyReset(led, gameKey, type) ==
    IF led.locks[gameKey] /\ gameKey # type
    THEN LET n == led.unlock[gameKey] + 1
         IN IF n >= UNLOCK_THRESHOLD
            THEN [led EXCEPT !.locks[gameKey] = FALSE,
                             !.counts[gameKey] = 0,
                             !.unlock[gameKey] = 0]
            ELSE [led EXCEPT !.unlock[gameKey] = n, !.counts[gameKey] = 0]
    ELSE led

\* variant of unlockStep whose unlock clears the unlock counter of every game
unlockStepClearAll(led, gameKey, type) ==
    IF led.locks[gameKey] /\ gameKey # type
    THEN LET n == led.unlock[gameKey] + 1
         IN IF n >= UNLOCK_THRESHOLD
            THEN [led EXCEPT !.locks[gameKey] = FALSE,
                             !.counts[gameKey] = 0,
                             !.unlock = [g \in GameType |-> 0]]
            ELSE [led EXCEPT !.unlock[gameKey] = n]
    ELSE led

\* variant of unlockStep that unlocks without clearing the unlock counter
unlockStepKeepCounter(led, gameKey, type) ==
    IF led.locks[gameKey] /\ gameKey # type
    THEN LET n == led.unlock[gameKey] + 1
         IN IF n >= UNLOCK_THRESHOLD
            THEN [led EXCEPT !.locks[gameKey] = FALSE,
                             !.counts[gameKey] = 0,
                             !.unlock[gameKey] = n]
            ELSE [led EXCEPT !.unlock[gameKey] = n]
    ELSE led

\* body of the forEach callback for one gameKey
unlockStep(led, gameKey, type) ==
    IF led.locks[gameKey] /\ gameKey # type
    THEN LET n == led.unlock[gameKey] + 1
         IN IF n >= UNLOCK_THRESHOLD
            THEN [led EXCEPT !.locks[gameKey] = FALSE,
                             !.counts[gameKey] = 0,
                             !.unlock[gameKey] = 0]
            ELSE [led EXCEPT !.unlock[gameKey] = n]
    ELSE led

\* Object.keys(newLocks).forEach(gameKey => ...), over the keys in the given order
RECURSIVE forEachKey(_, _, _)
forEachKey(keys, led, type) ==
    IF keys = << >> THEN led
    ELSE \* l is the ledger value the pass for Head(keys) leaves behind
         CHOOSE r \in {forEachKey(Tail(keys), l, type) :
                           l \in {unlockStep(led, Head(keys), type)}} : TRUE

\* the else branch of the updater: the practice ledger
practiceBranch(prev, result) ==
    LET type == result.gameType
        led0 == [counts |-> prev.successCounts,
                 locks |-> prev.isLocked,
                 unlock |-> prev.otherSuccessesSinceLock]
        led == forEachKey(GameKeys, countAndLock(led0, type), type)
    IN [prev EXCEPT !.successCounts = led.counts,
                    !.isLocked = led.locks,
                    !.otherSuccessesSinceLock = led.unlock]

\* variant of completeGameUpdater whose practice ledger also runs for a test
completeGameUpdaterNoElse(prev, result, test) ==
    IF test THEN practiceBranch(testBranch(prev, result), result)
    ELSE practiceBranch(prev, result)

\* setState(prev => { ... return newState; }) of completeGame, with the
\* isTestMode its closure holds
completeGameUpdater(prev, result, test) ==
    IF test THEN testBranch(prev, result) ELSE practiceBranch(prev, result)

(***************************************************************************)
(* addEmeralds' state updater                                              *)
(***************************************************************************)

\* variant of addEmeraldsUpdater that derives level from the xp before the reward
addEmeraldsUpdaterStaleLevel(prev, amount) ==
    [prev EXCEPT !.emeralds = prev.emeralds + amount,
                 !.xp = prev.xp + (amount * XP_PER_EMERALD),
                 !.level = (prev.xp \div XP_PER_LEVEL) + 1]

\* setState(prev => ({...prev, emeralds, xp, level})) of addEmeralds(amount)
addEmeraldsUpdater(prev, amount) ==
    [prev EXCEPT !.emeralds = prev.emeralds + amount,
                 !.xp = prev.xp + (amount * XP_PER_EMERALD),
                 !.level = ((prev.xp + amount * XP_PER_EMERALD) \div XP_PER_LEVEL) + 1]

\* variant of rewardOf that rounds to the nearest ten (Math.round)
rewardOfRounded(result) == (result.score + 5) \div SCORE_PER_EMERALD

\* Math.floor(result.score / 10)
rewardOf(result) == result.score \div SCORE_PER_EMERALD

(***************************************************************************)
(* buyItem's state updaters                                                *)
(***************************************************************************)

\* variant of buyUpdater that takes the price back through addEmeralds' formula
buyUpdaterThroughAddEmeralds(prev, price, itemId) ==
    [prev EXCEPT !.emeralds = prev.emeralds - price,
                 !.xp = prev.xp - (price * XP_PER_EMERALD),
                 !.level = ((prev.xp - price * XP_PER_EMERALD) \div XP_PER_LEVEL) + 1,
                 !.unlockedItems = Append(prev.unlockedItems, itemId),
                 !.equippedItem = itemId]

\* prev => ({...prev, emeralds: prev.emeralds - price,
\*           unlockedItems: [...prev.unlockedItems, itemId], equippedItem: itemId})
buyUpdater(prev, price, itemId) ==
    [prev EXCEPT !.emeralds = prev.emeralds - price,
                 !.unlockedItems = Append(prev.unlockedItems, itemId),
                 !.equippedItem = itemId]

\* prev => ({ ...prev, equippedItem: itemId })
equipUpdater(prev, itemId) == [prev EXCEPT !.equippedItem = itemId]

(***************************************************************************)
(* State updates: what a handler queues and how the queue is committed     *)
(***************************************************************************)

\* one queued setState(prev => ...) call, applied to prev
applyUpdate(prev, u) ==
    CASE u.kind = "completeGame" -> completeGameUpdater(prev, u.result, u.test)
      [] u.kind = "addEmeralds" -> addEmeraldsUpdater(prev, u.amount)
      [] u.kind = "buy" -> buyUpdater(prev, u.price, u.itemId)
      [] u.kind = "equip" -> equipUpdater(prev, u.itemId)

\* variant of completeGameUpdates without the call of addEmeralds
completeGameUpdatesNoReward(result, test) ==
    << [kind |-> "completeGame", result |-> result, test |-> test] >>

\* the setState calls completeGame(result) makes, in program order:
\* its own updater, then addEmeralds(Math.floor(result.score / 10))
completeGameUpdates(result, test) ==
    << [kind |-> "completeGame", result |-> result, test |-> test],
       [kind |-> "addEmeralds", amount |-> rewardOf(result)] >>

\* the commit: every updater a handler queued is applied, in order, to the
\* previous state, and the outcome replaces the state in one render
RECURSIVE commit(_, _)
commit(prev, updates) ==
    IF updates = << >> THEN prev
    ELSE \* p is the state value the first updater returns
         CHOOSE r \in {commit(p, Tail(updates)) :
                           p \in {applyUpdate(prev, Head(updates))}} : TRUE

(***************************************************************************)
(* speak and stopCurrentAudio                                              *)
(***************************************************************************)

\* let activeAudioSource = null: the token of no call
NoSource == 0

\* whether process.env.API_KEY is set and window.speechSynthesis exists
Env == [API_KEY : BOOLEAN, speechSynthesis : BOOLEAN]

\* the module-level variables of speak when the module is loaded, with no
\* call of speak made and nothing audible
speechStart ==
    /\ currentSpeechToken = 0
    /\ activeAudioSource = NoSource
    /\ speakCalls = << >>
    /\ sources = {}
    /\ utterances = << >>

\* a browser with speech synthesis, and a build with an API key
speechInit ==
    /\ env = [API_KEY |-> TRUE, speechSynthesis |-> TRUE]
    /\ speechStart

\* the variables speak does not touch
appVars ==
    <<state, settings, currentView, activeGame, playMode, isTestMode, lastGameResult,
      qIndex, correctCount, hearts, timeLeft, session, completeTimers, quitTimers,
      storage, phase>>

\* stopCurrentAudio(): activeAudioSource.stop() and activeAudioSource = null,
\* then window.speechSynthesis.cancel(), which empties the queue
stopCurrentAudio ==
    /\ sources' = IF activeAudioSource # NoSource THEN sources \ {activeAudioSource}
                  ELSE sources
    /\ activeAudioSource' = NoSource
    /\ utterances' = IF env.speechSynthesis THEN << >> ELSE utterances

\* "2. Fallback to Native Browser TTS", reached by the call with this token
\* while currentSpeechToken is current: where the call stands afterwards
fallback(token, current) ==
    IF env.speechSynthesis /\ token = current THEN "setTimeout" ELSE "done"

\* speak(text), up to its first await or to its end
speak ==
    /\ phase = "running"
    /\ LET token == currentSpeechToken + 1
       IN /\ currentSpeechToken' = token
          /\ stopCurrentAudio
          /\ speakCalls' = Append(speakCalls,
                                  IF env.API_KEY THEN "generateContent"
                                  ELSE fallback(token, token))
    /\ UNCHANGED <<appVars, env>>

\* await ai.models.generateContent(...) of the call with this token resolves,
\* with inline audio data or without
generateContentResolves(token, base64Audio) ==
    /\ token \in 1..Len(speakCalls)
    /\ speakCalls[token] = "generateContent"
    /\ speakCalls' =
          [speakCalls EXCEPT ![token] =
              IF token # currentSpeechToken THEN "done"
              ELSE IF base64Audio THEN "decodeAudioData"
              ELSE fallback(token, currentSpeechToken)]
    /\ UNCHANGED <<appVars, env, currentSpeechToken, activeAudioSource, sources, utterances>>

\* generateContent rejects, or reading the response throws: the catch block
\* logs, and the call goes on with the fallback
generateContentRejects(token) ==
    /\ token \in 1..Len(speakCalls)
    /\ speakCalls[token] = "generateContent"
    /\ speakCalls' = [speakCalls EXCEPT ![token] = fallback(token, currentSpeechToken)]
    /\ UNCHANGED <<appVars, env, currentSpeechToken, activeAudioSource, sources, utterances>>

\* variant of decodeAudioDataResolves without the final check of the token
decodeAudioDataResolvesUnchecked(token) ==
    /\ token \in 1..Len(speakCalls)
    /\ speakCalls[token] = "decodeAudioData"
    /\ speakCalls' = [speakCalls EXCEPT ![token] = "done"]
    /\ activeAudioSource' = token
    /\ sources' = sources \cup {token}
    /\ UNCHANGED <<appVars, env, currentSpeechToken, utterances>>

\* await decodeAudioData(...) of the call with this token resolves: after the
\* final check, activeAudioSource = source; source.start()
decodeAudioDataResolves(token) ==
    /\ token \in 1..Len(speakCalls)
    /\ speakCalls[token] = "decodeAudioData"
    /\ speakCalls' = [speakCalls EXCEPT ![token] = "done"]
    /\ IF token # currentSpeechToken
       THEN UNCHANGED <<activeAudioSource, sources>>
       ELSE /\ activeAudioSource' = token
            /\ sources' = sources \cup {token}
    /\ UNCHANGED <<appVars, env, currentSpeechToken, utterances>>

\* decodeAudioData rejects: the catch block logs, and the call goes on with
\* the fallback
decodeAudioDataRejects(token) ==
    /\ token \in 1..Len(speakCalls)
    /\ speakCalls[token] = "decodeAudioData"
    /\ speakCalls' = [speakCalls EXCEPT ![token] = fallback(token, currentSpeechToken)]
    /\ UNCHANGED <<appVars, env, currentSpeechToken, activeAudioSource, sources, utterances>>

\* the setTimeout(..., 10) of the call with this token fires:
\* if (token === currentSpeechToken) window.speechSynthesis.speak(utterance)
speakTimeout(token) ==
    /\ token \in 1..Len(speakCalls)
    /\ speakCalls[token] = "setTimeout"
    /\ speakCalls' = [speakCalls EXCEPT ![token] = "done"]
    /\ utterances' = IF token = currentSpeechToken THEN Append(utterances, token)
                     ELSE utterances
    /\ UNCHANGED <<appVars, env, currentSpeechToken, activeAudioSource, sources>>

\* a started source plays its buffer to the end; activeAudioSource keeps it
sourceEnded(token) ==
    /\ token \in sources
    /\ sources' = sources \ {token}
    /\ UNCHANGED <<appVars, env, currentSpeechToken, activeAudioSource, speakCalls, utterances>>

\* window.speechSynthesis has spoken the utterance at the head of its queue
utteranceEnded ==
    /\ utterances # << >>
    /\ utterances' = Tail(utterances)
    /\ UNCHANGED <<appVars, env, currentSpeechToken, activeAudioSource, speakCalls, sources>>

(***************************************************************************)
(* Handlers of App                                                         *)
(***************************************************************************)

\* completeGame(result), called through a closure that holds isTestMode = test
CompleteGame(result, test) ==
    /\ lastGameResult' = result
    /\ state' = commit(state, completeGameUpdates(result, test))
    /\ currentView' = "results"
    /\ UNCHANGED uiVars
    /\ qIndex' = 0 /\ correctCount' = 0 /\ hearts' = 0 /\ timeLeft' = 0
    /\ Persist
    /\ UNCHANGED <<phase, speechVars>>

\* resetProgress, when the confirm dialog is accepted
ResetProgress ==
    /\ currentView = "parent"
    /\ state' = INITIAL_STATE
    /\ settings' = INITIAL_SETTINGS
    /\ currentView' = "hub"
    /\ UNCHANGED <<activeGame, playMode, isTestMode, lastGameResult>>
    /\ Persist
    /\ UNCHANGED <<gameVars, timerVars, phase, speechVars>>

\* HUD's onOpenParent, rendered whenever currentView is not 'game'
OpenParent ==
    /\ currentView # "game"
    /\ currentView' = "parent"
    /\ UNCHANGED <<state, uiVars, lastGameResult, gameVars, timerVars, storage, phase, speechVars>>

\* Hub's onOpenShop
OpenShop ==
    /\ currentView = "hub"
    /\ currentView' = "shop"
    /\ UNCHANGED <<state, uiVars, lastGameResult, gameVars, timerVars, storage, phase, speechVars>>

\* Hub's onOpenTests
OpenTests ==
    /\ currentView = "hub"
    /\ currentView' = "test-select"
    /\ UNCHANGED <<state, uiVars, lastGameResult, gameVars, timerVars, storage, phase, speechVars>>

\* HUD's onHome and the onBack / onHome of the screens: setCurrentView('hub')
GoHub ==
    /\ currentView \in {"shop", "parent", "test-select", "results"}
    /\ currentView' = "hub"
    /\ UNCHANGED <<state, uiVars, lastGameResult, gameVars, timerVars, storage, phase, speechVars>>

\* variant of buyItemUpdates that does not compare emeralds with the price
buyItemUpdatesNoPriceCheck(st, price, itemId) ==
    LET owned == \E i \in 1..Len(st.unlockedItems) : st.unlockedItems[i] = itemId
    IN IF ~owned
       THEN << [kind |-> "buy", price |-> price, itemId |-> itemId] >>
       ELSE << [kind |-> "equip", itemId |-> itemId] >>

\* the setState call buyItem(price, itemId) makes, if any; state is the
\* AppState of the render whose ShopScreen was clicked
buyItemUpdates(st, price, itemId) ==
    LET owned == \E i \in 1..Len(st.unlockedItems) : st.unlockedItems[i] = itemId
    IN IF st.emeralds >= price /\ ~owned
       THEN << [kind |-> "buy", price |-> price, itemId |-> itemId] >>
       ELSE IF owned
            THEN << [kind |-> "equip", itemId |-> itemId] >>
            ELSE << >>

\* ShopScreen's onBuy(item.price, item.id) for an item of SHOP_ITEMS
BuyItem(item) ==
    /\ currentView = "shop"
    /\ state' = commit(state, buyItemUpdates(state, item.price, item.id))
    /\ UNCHANGED <<currentView, uiVars, lastGameResult>>
    /\ Persist
    /\ UNCHANGED <<gameVars, timerVars, phase, speechVars>>

\* setActiveGame(type); setPlayMode(mode); setIsTestMode(test);
\* setCurrentView('game'), and the GameScreen this render mounts, with the
\* initial values of its useState calls
mountGame(type, mode, test) ==
    /\ activeGame' = type
    /\ playMode' = mode
    /\ isTestMode' = test
    /\ currentView' = "game"
    /\ qIndex' = 0
    /\ correctCount' = 0
    /\ hearts' = IF mode = "STREAK" THEN STREAK_HEARTS ELSE NO_HEARTS
    /\ timeLeft' = IF test THEN settings.testTimer
                   ELSE settings.sessionTimer * SECONDS_PER_MINUTE
    /\ session' = session + 1
    /\ UNCHANGED <<state, settings, lastGameResult, completeTimers, quitTimers, storage, phase, speechVars>>

\* variant of startGame without the check of the lock
startGameNoGate(type, mode, test) == mountGame(type, mode, test)

\* startGame(type, mode, test)
startGame(type, mode, test) ==
    IF ~test /\ state.isLocked[type]
    THEN UNCHANGED vars
    ELSE mountGame(type, mode, test)

\* startGame(type, mode, test), called by a Hub tile (practice, with the mode
\* chosen in the Hub) or by TestSelection (test, PlayMode.TIMED)
StartGame(type, mode, test) ==
    /\ \/ currentView = "hub" /\ ~test
       \/ currentView = "test-select" /\ test /\ mode = "TIMED"
    /\ startGame(type, mode, test)

\* ResultsScreen's onRetry: startGame(activeGame, playMode, isTestMode); the
\* button is rendered when !(!isTestMode && state.isLocked[activeGame])
Retry ==
    /\ currentView = "results"
    /\ ~(~isTestMode /\ state.isLocked[activeGame])
    /\ startGame(activeGame, playMode, isTestMode)

(***************************************************************************)
(* Results a game session hands to onComplete                              *)
(***************************************************************************)

\* finalResult of a practice session
practiceResult(type) ==
    [score |-> PRACTICE_SCORE, rating |-> "Diamond", time |-> 0, gameType |-> type]

\* finalResult of a test session with the given score and elapsed time
testResult(type, score, time) ==
    [score |-> score,
     rating |-> IF score >= DIAMOND_SCORE THEN "Diamond" ELSE "Wood",
     time |-> time,
     gameType |-> type]

\* onComplete(result) of a session whose closure holds isTestMode = test,
\* delivered while xp is below cap
OnComplete(result, test, cap) ==
    /\ state.xp < cap
    /\ CompleteGame(result, test)
    /\ UNCHANGED timerVars

\* a practice session of game v reports its completion
PracticeAttempt(v) == OnComplete(practiceResult(v), FALSE, MaxXp)

\* a test session of game v reports a result with score s
TestAttempt(v, s) == OnComplete(testResult(v, s, 0), TRUE, MaxXp)

Init ==
    /\ state = INITIAL_STATE
    /\ settings = INITIAL_SETTINGS
    /\ currentView = "hub"
    /\ activeGame = NoGame
    /\ playMode = "TIMED"
    /\ isTestMode = FALSE
    /\ lastGameResult = NoResult
    /\ qIndex = 0 /\ correctCount = 0 /\ hearts = 0 /\ timeLeft = 0
    /\ session = 0 /\ completeTimers = << >> /\ quitTimers = 0
    /\ storage = [data |-> stringifyState(INITIAL_STATE),
                  settings |-> stringifySettings(INITIAL_SETTINGS)]
    /\ phase = "running"
    /\ speechInit

(***************************************************************************)
(* What TestSelection shows                                                *)
(***************************************************************************)

\* const score = scores[t.type] || 0
shownScore(scores, type) ==
    IF type \in DOMAIN scores /\ scores[type] # 0 THEN scores[type] ELSE 0

\* const rating = score >= 90 ? 'Diamond' : score >= 75 ? 'Iron' : 'Wood'
shownRating(scores, type) ==
    LET score == shownScore(scores, type)
    IN IF score >= DIAMOND_SCORE THEN "Diamond"
       ELSE IF score >= IRON_SCORE THEN "Iron"
       ELSE "Wood"

\* variant of hasDiamondSword that asks for some score, not every score
hasDiamondSwordSome(st) ==
    /\ \E v \in DOMAIN st.testScores : st.testScores[v] >= DIAMOND_SCORE
    /\ Cardinality(DOMAIN st.testScores) >= SWORD_TESTS

\* hasDiamondSword={Object.values(state.testScores).every(s => s >= 90)
\*                  && Object.keys(state.testScores).length >= 4}
hasDiamondSword(st) ==
    /\ \A v \in DOMAIN st.testScores : st.testScores[v] >= DIAMOND_SCORE
    /\ Cardinality(DOMAIN st.testScores) >= SWORD_TESTS

(***************************************************************************)
(* Page load                                                               *)
(***************************************************************************)

\* the first render of App: the two useState initializers read localStorage,
\* the Hub is rendered, and the persistence effects run; an exception in an
\* initializer or in the render leaves the page without the App
Startup ==
    /\ phase = "boot"
    /\ LET st == loadState(storage.data)
           se == loadSettings(storage.settings)
       IN IF st.threw \/ se.threw \/ ~rendersHub(st.value)
          THEN /\ phase' = "crashed"
               /\ UNCHANGED <<state, settings, storage>>
          ELSE /\ state' = st.value
               /\ settings' = se.value
               /\ phase' = "running"
               /\ Persist
    /\ UNCHANGED <<currentView, activeGame, playMode, isTestMode, lastGameResult,
                   gameVars, timerVars, speechVars>>

\* the page is loaded again: every React state and every timeout is gone,
\* localStorage stays
Reload ==
    /\ phase \in {"running", "crashed"}
    /\ phase' = "boot"
    /\ state' = NoState
    /\ settings' = NoSettings
    /\ currentView' = "hub"
    /\ activeGame' = NoGame
    /\ playMode' = "TIMED"
    /\ isTestMode' = FALSE
    /\ lastGameResult' = NoResult
    /\ qIndex' = 0 /\ correctCount' = 0 /\ hearts' = 0 /\ timeLeft' = 0
    /\ session' = 0 /\ completeTimers' = << >> /\ quitTimers' = 0
    /\ currentSpeechToken' = 0
    /\ activeAudioSource' = NoSource
    /\ speakCalls' = << >>
    /\ sources' = {}
    /\ utterances' = << >>
    /\ UNCHANGED <<storage, env>>

(***************************************************************************)
(* Handlers and timeouts of GameScreen                                     *)
(***************************************************************************)

\* finalResult of handleAnswer; (nextCorrect / 10) * 100 is a double within
\* 1e-13 above the integer nextCorrect * 10 for nextCorrect in 1..22
finalResult(type, test, nextCorrect, elapsed) ==
    IF test
    THEN testResult(type, (nextCorrect * PERCENT) \div TEST_QUESTIONS, elapsed)
    ELSE practiceResult(type)

\* variant of handleAnswer in which a wrong answer outside STREAK mode moves on
\* to the next question
HandleAnswerSkippingWrong(correct) ==
    /\ phase = "running"
    /\ currentView = "game"
    /\ IF correct
       THEN LET nextCorrect == correctCount + 1
                isFinished == \/ isTestMode /\ qIndex + 1 >= TEST_QUESTIONS
                              \/ playMode = "STREAK" /\ nextCorrect >= STREAK_TARGET
            IN /\ correctCount' = nextCorrect
               /\ IF isFinished
                  THEN /\ completeTimers' =
                            Append(completeTimers,
                                   [result |-> finalResult(activeGame, isTestMode, nextCorrect,
                                                           settings.testTimer - timeLeft),
                                    test |-> isTestMode,
                                    session |-> session])
                       /\ UNCHANGED qIndex
                  ELSE /\ qIndex' = qIndex + 1
                       /\ UNCHANGED completeTimers
               /\ UNCHANGED <<hearts, quitTimers>>
       ELSE IF playMode = "STREAK"
            THEN /\ hearts' = hearts - 1
                 /\ quitTimers' = IF hearts <= 1 THEN quitTimers + 1 ELSE quitTimers
                 /\ UNCHANGED <<qIndex, correctCount, completeTimers>>
            ELSE /\ qIndex' = qIndex + 1
                 /\ UNCHANGED <<correctCount, hearts, completeTimers, quitTimers>>
    /\ UNCHANGED <<state, uiVars, currentView, lastGameResult, timeLeft, session, storage, phase, speechVars>>

\* handleAnswer(correct) of the mounted GameScreen, called by GameLogic's
\* onAnswer; the timeout of a finished session holds finalResult and the
\* onComplete (completeGame) of the render that scheduled it
HandleAnswer(correct) ==
    /\ phase = "running"
    /\ currentView = "game"
    /\ IF correct
       THEN LET nextCorrect == correctCount + 1
                isFinished == \/ isTestMode /\ qIndex + 1 >= TEST_QUESTIONS
                              \/ playMode = "STREAK" /\ nextCorrect >= STREAK_TARGET
            IN /\ correctCount' = nextCorrect
               /\ IF isFinished
                  THEN /\ completeTimers' =
                            Append(completeTimers,
                                   [result |-> finalResult(activeGame, isTestMode, nextCorrect,
                                                           settings.testTimer - timeLeft),
                                    test |-> isTestMode,
                                    session |-> session])
                       /\ UNCHANGED qIndex
                  ELSE /\ qIndex' = qIndex + 1
                       /\ UNCHANGED completeTimers
               /\ UNCHANGED <<hearts, quitTimers>>
       ELSE IF playMode = "STREAK"
            THEN /\ hearts' = hearts - 1
                 /\ quitTimers' = IF hearts <= 1 THEN quitTimers + 1 ELSE quitTimers
                 /\ UNCHANGED <<qIndex, correctCount, completeTimers>>
            ELSE UNCHANGED <<qIndex, correctCount, hearts, completeTimers, quitTimers>>
    /\ UNCHANGED <<state, uiVars, currentView, lastGameResult, timeLeft, session, storage, phase, speechVars>>

\* variant of onQuit that also clears the success counts
QuitClearingCounts ==
    /\ phase = "running"
    /\ currentView = "game"
    /\ currentView' = "hub"
    /\ qIndex' = 0 /\ correctCount' = 0 /\ hearts' = 0 /\ timeLeft' = 0
    /\ state' = [state EXCEPT !.successCounts = INITIAL_STATE.successCounts]
    /\ UNCHANGED <<uiVars, lastGameResult, timerVars, phase, speechVars>>
    /\ Persist

\* onQuit of GameScreen, () => setCurrentView('hub'): the "Back to Hub" button
Quit ==
    /\ phase = "running"
    /\ currentView = "game"
    /\ currentView' = "hub"
    /\ qIndex' = 0 /\ correctCount' = 0 /\ hearts' = 0 /\ timeLeft' = 0
    /\ UNCHANGED <<state, uiVars, lastGameResult, timerVars, storage, phase, speechVars>>

\* the interval of the mounted GameScreen fires:
\* setTimeLeft(prev => prev > 0 ? prev - 1 : 0); it is set up for a test and
\* for a TIMED practice session, and cleared on unmount
Tick ==
    /\ phase = "running"
    /\ currentView = "game"
    /\ isTestMode \/ playMode = "TIMED"
    /\ timeLeft' = IF timeLeft > 0 THEN timeLeft - 1 ELSE 0
    /\ UNCHANGED <<state, uiVars, currentView, lastGameResult, qIndex, correctCount, hearts,
                   timerVars, storage, phase, speechVars>>

\* a pending setTimeout(onQuit, 1600) fires, whatever the view is by then
QuitTimer ==
    /\ phase = "running"
    /\ quitTimers > 0
    /\ quitTimers' = quitTimers - 1
    /\ currentView' = "hub"
    /\ qIndex' = 0 /\ correctCount' = 0 /\ hearts' = 0 /\ timeLeft' = 0
    /\ UNCHANGED <<state, uiVars, lastGameResult, session, completeTimers, storage, phase, speechVars>>

\* the oldest pending setTimeout(() => onComplete(finalResult), 2000) fires,
\* whatever the view is by then
CompleteTimer ==
    /\ phase = "running"
    /\ completeTimers # << >>
    /\ CompleteGame(Head(completeTimers).result, Head(completeTimers).test)
    /\ completeTimers' = Tail(completeTimers)
    /\ UNCHANGED <<session, quitTimers>>

(***************************************************************************)
(* Spec: the ledger under practice and test completions on every game      *)
(***************************************************************************)

Next ==
    \/ \E v \in GameType : PracticeAttempt(v)
    \/ \E v \in GameType, s \in TestScores : TestAttempt(v, s)
    \/ OpenParent
    \/ ResetProgress

Spec == Init /\ [][Next]_vars

(***************************************************************************)
(* Properties of the ledger                                                *)
(***************************************************************************)

counts(st, v) == st.successCounts[v]

locked(st, v) == st.isLocked[v]

unlockCount(st, v) == st.otherSuccessesSinceLock[v]

\* C1 (lock transition): a practice completion on a game v that is not
\* locked adds exactly 1 to successCounts[v] and leaves v unlocked while the
\* new count is below 5 and locks it when the count reaches 5; a game that is
\* not locked has a count below 5, so k completions from 0 give count k and
\* the fifth one gives a locked game with count 5.
C1_LockTransition ==
    /\ [](\A v \in GameType : ~locked(state, v) => counts(state, v) \in 0..4)
    /\ [][\A v \in GameType :
            (PracticeAttempt(v) /\ ~locked(state, v)) =>
                /\ counts(state', v) = counts(state, v) + 1
                /\ locked(state', v) = (counts(state, v) = 4)
                /\ unlockCount(state', v) = 0]_vars

C1_Witness ==
    \E v \in GameType :
        /\ locked(state, v)
        /\ counts(state, v) = 5
        /\ state.xp = 250
        /\ lastGameResult = practiceResult(v)

\* C2 (unlock transition): while v is locked, a practice completion on another
\* game w adds 1 to otherSuccessesSinceLock[v] and leaves v locked with its
\* count untouched when the new value is 1 or 2, and when it would be 3 the
\* same new state has v unlocked with both counters 0; every step in which v
\* goes from locked to unlocked ends with both counters of v at 0.
C2_UnlockTransition ==
    /\ [][\A v \in GameType : \A w \in GameType \ {v} :
            (PracticeAttempt(w) /\ locked(state, v)) =>
                IF unlockCount(state, v) + 1 < 3
                THEN /\ locked(state', v)
                     /\ unlockCount(state', v) = unlockCount(state, v) + 1
                     /\ counts(state', v) = counts(state, v)
                ELSE /\ ~locked(state', v)
                     /\ unlockCount(state', v) = 0
                     /\ counts(state', v) = 0]_vars
    /\ [][\A v \in GameType :
            (locked(state, v) /\ ~locked(state', v)) =>
                (counts(state', v) = 0 /\ unlockCount(state', v) = 0)]_vars

\* five completions on v and three on w, no test: v has been locked and
\* unlocked again by the third completion on w
C2_Witness ==
    \E v \in GameType : \E w \in GameType \ {v} :
        /\ state.xp = 400
        /\ DOMAIN state.testScores = {}
        /\ counts(state, w) = 3
        /\ counts(state, v) = 0
        /\ ~locked(state, v)
        /\ \A u \in GameType \ {v, w} : counts(state, u) = 0
        /\ lastGameResult = practiceResult(w)

\* C3 (defensive guard): a practice completion applied for a game v that is
\* already locked leaves successCounts[v], isLocked[v] and
\* otherSuccessesSinceLock[v] as they were.
C3_LockedIsNoOp ==
    [][\A v \in GameType :
            (PracticeAttempt(v) /\ locked(state, v)) =>
                /\ counts(state', v) = counts(state, v)
                /\ locked(state', v) = locked(state, v)
                /\ unlockCount(state', v) = unlockCount(state, v)]_vars

\* C4 (ledger routing): a test completion leaves isLocked, successCounts and
\* otherSuccessesSinceLock of every game unchanged and records the score in
\* testScores; a practice completion leaves testScores unchanged and counts
\* in successCounts.
C4_LedgerRouting ==
    /\ [][\A v \in GameType, s \in TestScores :
            TestAttempt(v, s) =>
                /\ state'.isLocked = state.isLocked
                /\ state'.successCounts = state.successCounts
                /\ state'.otherSuccessesSinceLock = state.otherSuccessesSinceLock
                /\ v \in DOMAIN state'.testScores
                /\ state'.testScores[v] >= s]_vars
    /\ [][\A v \in GameType :
            PracticeAttempt(v) =>
                /\ state'.testScores = state.testScores
                /\ state'.successCounts # state.successCounts]_vars

\* a test result recorded for a game that is locked, its ledger intact
C4_Witness ==
    \E v \in GameType :
        /\ locked(state, v)
        /\ counts(state, v) = 5
        /\ v \in DOMAIN state.testScores
        /\ lastGameResult = testResult(v, 100, 0)
        /\ currentView = "results"

\* C8 (lock invariant): a locked game has a success count of at least 5.
C8_LockedImpliesThreshold ==
    \A v \in GameType : locked(state, v) => counts(state, v) >= 5

\* a game locked while another one has been unlocked again
C8_Witness ==
    \E v \in GameType : \E w \in GameType \ {v} :
        /\ locked(state, v)
        /\ counts(state, v) >= 5
        /\ unlockCount(state, v) = 2
        /\ counts(state, w) = 2

\* C9 (unlock-progress invariant): a game that is not locked has
\* otherSuccessesSinceLock 0, and a step that raises the counter of a game
\* ends in a state where that game is locked.
C9_UnlockProgressOnlyWhileLocked ==
    /\ [](\A v \in GameType : ~locked(state, v) => unlockCount(state, v) = 0)
    /\ [][\A v \in GameType :
            unlockCount(state', v) > unlockCount(state, v) => locked(state', v)]_vars

C9_Witness ==
    \E v \in GameType : \E w \in GameType \ {v} :
        /\ locked(state, v)
        /\ unlockCount(state, v) = 1
        /\ ~locked(state, w)
        /\ counts(state, w) = 1
        /\ unlockCount(state, w) = 0

(***************************************************************************)
(* SpecScores: test results of several scores, and practice completions    *)
(***************************************************************************)

ScoreTest(v, s) == OnComplete(testResult(v, s, 0), TRUE, MaxXpScores)

ScorePractice(v) == OnComplete(practiceResult(v), FALSE, MaxXpScores)

NextScores ==
    \/ \E v \in GameType, s \in ScoreSamples : ScoreTest(v, s)
    \/ \E v \in GameType : ScorePractice(v)

SpecScores == Init /\ [][NextScores]_vars

\* the recorded best score of v, 0 when there is none
BestOrZero(st, v) == IF v \in DOMAIN st.testScores THEN st.testScores[v] ELSE 0

MaxOf(a, b) == IF a >= b THEN a ELSE b

\* C5 (best test score): after a completed test on v with score s, testScores
\* has an entry for v equal to the larger of s and the previous best (0 when
\* there was none), the entries of the other games are as before, and no
\* attempt completion lowers the best score of any game.
C5_BestTestScore ==
    /\ [][\A v \in GameType, s \in ScoreSamples :
            ScoreTest(v, s) =>
                /\ v \in DOMAIN state'.testScores
                /\ state'.testScores[v] = MaxOf(BestOrZero(state, v), s)
                /\ \A w \in GameType \ {v} :
                      /\ (w \in DOMAIN state'.testScores) = (w \in DOMAIN state.testScores)
                      /\ BestOrZero(state', w) = BestOrZero(state, w)]_vars
    /\ [][\A v \in GameType : BestOrZero(state', v) >= BestOrZero(state, v)]_vars

\* a score of 80 delivered for a game whose best is 100, beside a game whose
\* best is 80
C5_Witness ==
    \E v \in GameType : \E w \in GameType \ {v} :
        /\ lastGameResult = testResult(v, 80, 0)
        /\ BestOrZero(state, v) = 100
        /\ BestOrZero(state, w) = 80

\* the mastery tier of a score
Tier(s) ==
    IF s >= 90 THEN "Diamond"
    ELSE IF s >= 75 THEN "Iron"
    ELSE "Wood"

TierRank(t) == CASE t = "Wood" -> 0 [] t = "Iron" -> 1 [] t = "Diamond" -> 2

ShopPractice(v) == OnComplete(practiceResult(v), FALSE, MaxXpShop)

ShopTest(v) == OnComplete(testResult(v, ShopTestScore, 0), TRUE, MaxXpShop)

NextShop ==
    \/ \E v \in GameType : ShopPractice(v)
    \/ \E v \in GameType : ShopTest(v)
    \/ OpenShop
    \/ \E item \in SHOP_ITEMS : BuyItem(item)
    \/ GoHub
    \/ OpenParent
    \/ ResetProgress

SpecShop == Init /\ [][NextShop]_vars

\* C7 (level invariant): level = floor(xp / 100) + 1 in every state reached by
\* attempt completions, purchases, equips and resets; xp = 50 goes with
\* level 1 and xp = 200 with level 3.
C7_LevelFromXp ==
    /\ state.level = (state.xp \div 100) + 1
    /\ state.xp = 50 => state.level = 1
    /\ state.xp = 200 => state.level = 3

\* four rewards of score 100 in a row and a purchase
C7_Witness ==
    /\ state.xp = 200
    /\ state.level = 3
    /\ state.emeralds = 30
    /\ Len(state.unlockedItems) = 2

(***************************************************************************)
(* SpecPurse: the shop, fed by the completions of one game                 *)
(***************************************************************************)

PursePractice == OnComplete(practiceResult(PurseGame), FALSE, MaxXpPurse)

PurseTest == OnComplete(testResult(PurseGame, ShopTestScore, 0), TRUE, MaxXpPurse)

NextPurse ==
    \/ PursePractice
    \/ PurseTest
    \/ OpenShop
    \/ \E item \in SHOP_ITEMS : BuyItem(item)
    \/ GoHub
    \/ OpenParent
    \/ ResetProgress

SpecPurse == Init /\ [][NextPurse]_vars

\* st owns the shop item with this id
Owns(st, itemId) == \E i \in 1..Len(st.unlockedItems) : st.unlockedItems[i] = itemId

\* C18 (currency never negative): emeralds >= 0 in every state; buyItem on an
\* item that is not owned and costs no more than the emeralds held deducts
\* the price, appends the item to unlockedItems and equips it; on an owned
\* item it changes equippedItem only; on an item that is neither owned nor
\* affordable it changes nothing.
C18_EmeraldsNeverNegative ==
    /\ [](state.emeralds >= 0)
    /\ [][\A item \in SHOP_ITEMS :
            BuyItem(item) =>
                IF ~Owns(state, item.id) /\ state.emeralds >= item.price
                THEN /\ state'.emeralds = state.emeralds - item.price
                     /\ state'.unlockedItems = Append(state.unlockedItems, item.id)
                     /\ state'.equippedItem = item.id
                     /\ state' = [state EXCEPT !.emeralds = state'.emeralds,
                                               !.unlockedItems = state'.unlockedItems,
                                               !.equippedItem = state'.equippedItem]
                ELSE IF Owns(state, item.id)
                     THEN state' = [state EXCEPT !.equippedItem = item.id]
                     ELSE state' = state]_vars

\* all ten emeralds of one practice completion were spent on the wood tile,
\* and the shop is still open
C18_Witness ==
    /\ currentView = "shop"
    /\ state.emeralds = 0
    /\ state.xp = 50
    /\ state.unlockedItems = <<"base-char", "wood-tile">>
    /\ state.equippedItem = "wood-tile"

\* C19 (xp monotone): no step other than the reset of progress lowers xp: not
\* an attempt completion, not a purchase, not an equip; a purchase and an
\* equip leave xp and level as they were.
C19_XpMonotone ==
    /\ [][~ResetProgress => state'.xp >= state.xp]_vars
    /\ [][\A item \in SHOP_ITEMS :
            BuyItem(item) => (state'.xp = state.xp /\ state'.level = state.level)]_vars

\* two items were bought out of 200 xp worth of rewards, and the first one
\* was equipped again
C19_Witness ==
    /\ state.xp = 200
    /\ state.level = 3
    /\ state.emeralds = 5
    /\ Len(state.unlockedItems) = 3
    /\ state.equippedItem = "wood-tile"

(***************************************************************************)
(* SpecReward: one attempt of any score, started through startGame, after  *)
(* 0..MaxPrior practice completions of one game                            *)
(***************************************************************************)

PriorGame == "MAKE_TEN"

\* the AppState after k practice completions of PriorGame
RECURSIVE priorState(_)
priorState(k) ==
    IF k = 0 THEN INITIAL_STATE
    ELSE commit(priorState(k - 1), completeGameUpdates(practiceResult(PriorGame), FALSE))

InitReward ==
    \E k \in 0..MaxPrior :
        /\ state = priorState(k)
        /\ settings = INITIAL_SETTINGS
        /\ currentView = "hub"
        /\ activeGame = IF k = 0 THEN NoGame ELSE PriorGame
        /\ playMode = IF k = 0 THEN "TIMED" ELSE "STREAK"
        /\ isTestMode = FALSE
        /\ lastGameResult = IF k = 0 THEN NoResult ELSE practiceResult(PriorGame)
        /\ qIndex = 0 /\ correctCount = 0 /\ hearts = 0 /\ timeLeft = 0
        /\ session = k /\ completeTimers = << >> /\ quitTimers = 0
        /\ storage = [data |-> stringifyState(priorState(k)),
                      settings |-> stringifySettings(INITIAL_SETTINGS)]
        /\ phase = "running"
        /\ speechInit

\* the result with score s of a session of game type
sessionResult(type, test, s) ==
    IF test THEN testResult(type, s, 0)
    ELSE [practiceResult(type) EXCEPT !.score = s]

\* the mounted GameScreen calls onComplete with a result of score s
SessionResult(s) ==
    /\ currentView = "game"
    /\ CompleteGame(sessionResult(activeGame, isTestMode, s), isTestMode)
    /\ UNCHANGED timerVars

NextReward ==
    \/ OpenTests
    \/ \E type \in GameType, mode \in PlayMode, test \in BOOLEAN : StartGame(type, mode, test)
    \/ \E s \in AllScores : SessionResult(s)

SpecReward == InitReward /\ [][NextReward]_vars

\* the k with 10k <= s < 10k + 10
Tens(s) == CHOOSE k \in 0..s : 10 * k <= s /\ s < 10 * k + 10

C12_StartGate ==
    /\ [][\A v \in GameType, mode \in PlayMode :
            (StartGame(v, mode, FALSE) /\ locked(state, v)) =>
                UNCHANGED <<currentView, activeGame, playMode, isTestMode, gameVars, session>>]_vars
    /\ [][\A v \in GameType, mode \in PlayMode :
            (StartGame(v, mode, FALSE) /\ ~locked(state, v)) =>
                /\ currentView' = "game"
                /\ activeGame' = v
                /\ playMode' = mode
                /\ ~isTestMode']_vars
    /\ [][\A v \in GameType :
            StartGame(v, "TIMED", TRUE) =>
                /\ currentView' = "game"
                /\ activeGame' = v
                /\ playMode' = "TIMED"
                /\ isTestMode'
                /\ state' = state]_vars

\* a test session of a locked game is mounted
C12_Witness ==
    /\ currentView = "game"
    /\ isTestMode
    /\ activeGame \in GameType
    /\ locked(state, activeGame)
    /\ counts(state, activeGame) >= LOCK_THRESHOLD
    /\ timeLeft = settings.testTimer

(***************************************************************************)
(* Atomicity of a completion                                               *)
(***************************************************************************)

LedgerOf(st) ==
    <<st.successCounts, st.isLocked, st.otherSuccessesSinceLock, st.testScores>>

RewardOf(st) == <<st.emeralds, st.xp, st.level>>

Answer(correct) ==
    /\ correctCount < MaxCorrect
    /\ Len(completeTimers) < MaxTimers
    /\ hearts > 1 \/ quitTimers < MaxTimers
    /\ HandleAnswer(correct)

\* a Hub tile or a Start button of TestSelection is clicked
SessionStart(type, mode, test) ==
    /\ session < MaxSessions
    /\ StartGame(type, mode, test)

\* the "Play Again" button of ResultsScreen is clicked
SessionRetry ==
    /\ session < MaxSessions
    /\ Retry

\* the oldest pending completion timeout fires
SessionComplete ==
    /\ state.xp < MaxXpSession
    /\ CompleteTimer

NextSession ==
    \/ OpenTests
    \/ GoHub
    \/ \E type \in GameType, mode \in PlayMode, test \in BOOLEAN : SessionStart(type, mode, test)
    \/ SessionRetry
    \/ \E correct \in BOOLEAN : Answer(correct)
    \/ Quit
    \/ QuitTimer
    \/ SessionComplete

SpecSession == Init /\ [][NextSession]_vars

\* C11 (once per attempt): a game session causes at most one application of
\* completeGame: when a completion timeout of a session fires, no other
\* completion timeout of the same session is left pending (a pending one
\* fires later, nothing clears it).
C11_OncePerSession ==
    [][CompleteTimer =>
          \A i \in 1..Len(completeTimers') :
              completeTimers'[i].session # Head(completeTimers).session]_vars

\* C17 (score range): every result handed to completeGame has a score within
\* 0..100, so every recorded test score is within 0..100 and no completion
\* awards more than 10 emeralds.
C17_ScoreRange ==
    /\ [](\A i \in 1..Len(completeTimers) : completeTimers[i].result.score \in 0..100)
    /\ [](lastGameResult # NoResult => lastGameResult.score \in 0..100)
    /\ [](\A v \in DOMAIN state.testScores : state.testScores[v] \in 0..100)
    /\ [][state'.emeralds <= state.emeralds + 10]_vars

\* C13 (failures are no-ops): a wrong answer, the loss of a STREAK session by
\* hearts (the wrong answer that takes the last heart and the delayed onQuit
\* that follows it) and quitting a session leave the whole AppState as it was:
\* isLocked, successCounts, otherSuccessesSinceLock, emeralds, xp, level and
\* testScores included.
C13_FailuresAreNoOps ==
    [][(HandleAnswer(FALSE) \/ Quit \/ QuitTimer) =>
          /\ state' = state
          /\ storage' = storage
          /\ lastGameResult' = lastGameResult]_vars

\* a STREAK session that follows a practice completion loses its last heart
\* after three correct answers
C13_Witness ==
    /\ currentView = "game"
    /\ playMode = "STREAK"
    /\ hearts = 0
    /\ quitTimers = 1
    /\ correctCount = 3
    /\ session = 2
    /\ counts(state, activeGame) = 1
    /\ state.emeralds = 10

(***************************************************************************)
(* SpecOrder: practice completions only, long enough for two games to be   *)
(* locked at once with different unlock counters                           *)
(***************************************************************************)

OrderPractice(v) == OnComplete(practiceResult(v), FALSE, MaxXpOrder)

NextOrder == \E v \in GameType : OrderPractice(v)

SpecOrder == Init /\ [][NextOrder]_vars

\* the orders in which the keys of newLocks can be visited
KeyOrders ==
    {ks \in [1..Len(GameKeys) -> GameType] :
        \A i, j \in 1..Len(GameKeys) : i # j => ks[i] # ks[j]}

\* the ledger a practice completion of v yields from st when the forEach
\* visits the keys in the order ks
LedgerIn(st, v, ks) ==
    forEachKey(ks,
               countAndLock([counts |-> st.successCounts,
                             locks |-> st.isLocked,
                             unlock |-> st.otherSuccessesSinceLock], v),
               v)

\* C14 (order independence): the ledger that a practice completion of v
\* yields is the same for every order in which the other locked games are
\* visited, and it is the ledger the completion writes.
C14_OrderIndependence ==
    \A v \in GameType :
        LET next == practiceBranch(state, practiceResult(v))
        IN \A ks \in KeyOrders :
              /\ LedgerIn(state, v, ks).counts = next.successCounts
              /\ LedgerIn(state, v, ks).locks = next.isLocked
              /\ LedgerIn(state, v, ks).unlock = next.otherSuccessesSinceLock

\* two games are locked, one a step from its unlock and one not, and a third
\* game is playable
C14_Witness ==
    \E v \in GameType : \E w \in GameType \ {v} : \E u \in GameType \ {v, w} :
        /\ locked(state, v) /\ unlockCount(state, v) = 2
        /\ locked(state, w) /\ unlockCount(state, w) = 1
        /\ ~locked(state, u)
        /\ lastGameResult = practiceResult(u)

\* C25 (unlock-progress bound): otherSuccessesSinceLock[v] is 0, 1 or 2 for
\* every game v in every reachable state; a step that moves the counter of v
\* away from 2 leaves it at 0 with v not locked: the value 3 is never stored.
C25_UnlockCounterBound ==
    /\ [](\A v \in GameType : unlockCount(state, v) \in {0, 1, 2})
    /\ [][\A v \in GameType :
            (unlockCount(state, v) = 2 /\ unlockCount(state', v) # 2) =>
                (unlockCount(state', v) = 0 /\ ~locked(state', v))]_vars

\* v was locked and has been unlocked by completions of two different games
C25_Witness ==
    \E v \in GameType : \E w \in GameType \ {v} : \E u \in GameType \ {v, w} :
        /\ state.xp = 400
        /\ ~locked(state, v)
        /\ counts(state, v) = 0
        /\ unlockCount(state, v) = 0
        /\ counts(state, w) = 2
        /\ counts(state, u) = 1
        /\ lastGameResult = practiceResult(w)

(***************************************************************************)
(* SpecSword: test completions with scores on both sides of 90             *)
(***************************************************************************)

SwordTest(v, s) == OnComplete(testResult(v, s, 0), TRUE, MaxXpSword)

NextSword ==
    \/ \E v \in GameType, s \in SwordScores : SwordTest(v, s)
    \/ OpenTests
    \/ GoHub

SpecSword == Init /\ [][NextSword]_vars

\* C16 (diamond sword): hasDiamondSword is true exactly when testScores has
\* an entry for at least 4 distinct games and every recorded score is at
\* least 90, that is when each of the four games has a best score of at
\* least 90; it is computed from testScores and is no field of the AppState.
C16_DiamondSword ==
    /\ hasDiamondSword(state) =
          (/\ Cardinality({v \in GameType : v \in DOMAIN state.testScores}) >= 4
           /\ \A v \in GameType : v \in DOMAIN state.testScores => state.testScores[v] >= 90)
    /\ hasDiamondSword(state) = (\A v \in GameType : BestOrZero(state, v) >= 90)
    /\ "hasDiamondSword" \notin DOMAIN state
    /\ \A i \in 1..Len(storage.data.members) : storage.data.members[i][1] # "hasDiamondSword"

\* the sword is held, and a later test of score 89 has not taken it away
C16_Witness ==
    /\ hasDiamondSword(state)
    /\ lastGameResult.score = 89
    /\ currentView = "test-select"

(***************************************************************************)
(* SpecLoad: page loads over missing, malformed and saved entries          *)
(***************************************************************************)

\* what localStorage can hold under 'mathVillageData' when the page loads
DataEntries ==
    {NoEntry, EmptyString, Garbage, EmptyObject}
        \cup {stringifyState(priorState(k)) : k \in 0..MaxPrior}

\* what localStorage can hold under 'mathVillageSettings' when the page loads
SettingsEntries ==
    {NoEntry, EmptyString, Garbage, EmptyObject, stringifySettings(INITIAL_SETTINGS)}

InitLoad ==
    /\ storage \in [data : DataEntries, settings : SettingsEntries]
    /\ phase = "boot"
    /\ speechInit
    /\ state = NoState
    /\ settings = NoSettings
    /\ currentView = "hub"
    /\ activeGame = NoGame
    /\ playMode = "TIMED"
    /\ isTestMode = FALSE
    /\ lastGameResult = NoResult
    /\ qIndex = 0 /\ correctCount = 0 /\ hearts = 0 /\ timeLeft = 0
    /\ session = 0 /\ completeTimers = << >> /\ quitTimers = 0

LoadPractice(v) ==
    /\ phase = "running"
    /\ OnComplete(practiceResult(v), FALSE, MaxXpLoad)

LoadTest(v) ==
    /\ phase = "running"
    /\ OnComplete(testResult(v, ShopTestScore, 0), TRUE, MaxXpLoad)

NextLoad ==
    \/ Startup
    \/ Reload
    \/ \E v \in GameType : LoadPractice(v)
    \/ \E v \in GameType : LoadTest(v)

SpecLoad == InitLoad /\ [][NextLoad]_vars

\* the keys of the members of a stored entry
KeysOf(entry) == {entry.members[i][1] : i \in 1..Len(entry.members)}

\* the entry is the JSON text of an object with exactly these keys
WellFormed(entry, keys) ==
    /\ entry.kind = "json"
    /\ KeysOf(entry) = {keys[i] : i \in 1..Len(keys)}

\* C20 (snapshot load fallback): a page load always ends with the App
\* running; with a missing or malformed entry for the progress it starts
\* from INITIAL_STATE, with a missing or malformed entry for the settings
\* from INITIAL_SETTINGS, and a well-formed entry is loaded as the value it
\* was saved from.
C20_LoadFallback ==
    /\ [][Startup =>
            /\ phase' = "running"
            /\ IF WellFormed(storage.data, StateKeys)
               THEN stringifyState(state') = storage.data
               ELSE state' = INITIAL_STATE
            /\ IF WellFormed(storage.settings, SettingsKeys)
               THEN stringifySettings(settings') = storage.settings
               ELSE settings' = INITIAL_SETTINGS]_vars
    /\ [](phase = "running" =>
            /\ storage.data = stringifyState(state)
            /\ loadState(storage.data) = [threw |-> FALSE, value |-> state]
            /\ loadSettings(storage.settings) = [threw |-> FALSE, value |-> settings])

(***************************************************************************)
(* SpecCaller: game sessions played answer by answer on a page that was    *)
(* loaded with the progress of up to four practice completions of one game *)
(***************************************************************************)

\* the run starts after k practice completions of PriorGame, each of them
\* applied while the game was not locked
InitCaller ==
    \E k \in 0..(LOCK_THRESHOLD - 1) :
        /\ state = priorState(k)
        /\ settings = INITIAL_SETTINGS
        /\ currentView = "hub"
        /\ activeGame = NoGame
        /\ playMode = "TIMED"
        /\ isTestMode = FALSE
        /\ lastGameResult = NoResult
        /\ qIndex = 0 /\ correctCount = 0 /\ hearts = 0 /\ timeLeft = 0
        /\ session = 0 /\ completeTimers = << >> /\ quitTimers = 0
        /\ storage = [data |-> stringifyState(priorState(k)),
                      settings |-> stringifySettings(INITIAL_SETTINGS)]
        /\ phase = "running"
        /\ speechInit

\* the oldest pending completion timeout fires
CallerComplete ==
    /\ state.xp < MaxXpCaller
    /\ CompleteTimer

NextCaller ==
    \/ GoHub
    \/ \E type \in GameType, mode \in PlayMode : SessionStart(type, mode, FALSE)
    \/ SessionRetry
    \/ \E correct \in BOOLEAN : Answer(correct)
    \/ Quit
    \/ QuitTimer
    \/ CallerComplete

SpecCaller == InitCaller /\ [][NextCaller]_vars

\* C21 (caller precondition): in a run of the application a practice
\* completion is never applied to a state in which its game is locked, and
\* successCounts[v] <= 5 for every game v in every reachable state.
C21_CallerPrecondition ==
    /\ [][(CompleteTimer /\ ~Head(completeTimers).test) =>
            ~locked(state, Head(completeTimers).result.gameType)]_vars
    /\ [](\A v \in GameType : counts(state, v) <= 5)

(***************************************************************************)
(* SpecTimer: practice sessions with the session timer running             *)
(***************************************************************************)

\* a Hub tile of PriorGame is clicked, in any play mode
TimerStart(mode) ==
    /\ session < MaxTimerSessions
    /\ StartGame(PriorGame, mode, FALSE)

\* the "Play Again" button of ResultsScreen is clicked
TimerRetry ==
    /\ session < MaxTimerSessions
    /\ Retry

NextTimer ==
    \/ GoHub
    \/ \E mode \in PlayMode : TimerStart(mode)
    \/ TimerRetry
    \/ \E correct \in BOOLEAN : Answer(correct)
    \/ Tick
    \/ Quit
    \/ QuitTimer
    \/ SessionComplete

SpecTimer == Init /\ [][NextTimer]_vars

\* C22 (practice completion): a practice session schedules the report of a
\* completion only in STREAK mode, on the correct answer that brings its
\* correct count to 20, with score 100; the report adds 10 emeralds and 50 xp;
\* TIMED and FREE sessions schedule none; a tick of the session timer keeps
\* timeLeft at or above 0, keeps the session on screen and changes neither
\* the AppState nor the pending reports.
C22_PracticeCompletion ==
    /\ [][\A correct \in BOOLEAN :
            (HandleAnswer(correct) /\ ~isTestMode /\ completeTimers' # completeTimers) =>
                /\ correct
                /\ playMode = "STREAK"
                /\ correctCount' = 20
                /\ completeTimers'[Len(completeTimers')].result.score = 100]_vars
    /\ [][(CompleteTimer /\ ~Head(completeTimers).test) =>
            /\ state'.emeralds = state.emeralds + 10
            /\ state'.xp = state.xp + 50]_vars
    /\ [][Tick =>
            /\ timeLeft' >= 0
            /\ currentView' = "game"
            /\ state' = state
            /\ completeTimers' = completeTimers]_vars
    /\ [](timeLeft >= 0)

(***************************************************************************)
(* SpecRest: practice completions of every game, long enough for three     *)
(* games to be locked while the fourth is one completion from its lock,    *)
(* and test completions that earn nothing                                  *)
(***************************************************************************)

RestPractice(v) == OnComplete(practiceResult(v), FALSE, MaxXpRest)

RestTest == OnComplete(testResult(PriorGame, RestTestScore, 0), TRUE, MaxXpRest)

NextRest ==
    \/ \E v \in GameType : RestPractice(v)
    \/ RestTest

SpecRest == Init /\ [][NextRest]_vars

\* C23 (no dead end): in every state reached by practice and test
\* completions at least one of the four games is not locked.
C23_NoDeadEnd == \E v \in GameType : ~locked(state, v)

\* three games are locked, the third of them by the last completion, and
\* the fourth is one completion from its lock
C23_Witness ==
    \E u \in GameType : \E w \in GameType \ {u} :
        /\ \A v \in GameType \ {u} : locked(state, v)
        /\ ~locked(state, u)
        /\ counts(state, u) = 4
        /\ unlockCount(state, w) = 0
        /\ lastGameResult = practiceResult(w)

(***************************************************************************)
(* SpecFair: practice completions of games that are not locked, which keep *)
(* occurring while xp is below the bound, and test completions that earn   *)
(* nothing                                                                 *)
(***************************************************************************)

\* the xp one practice completion earns
PracticeXp == rewardOf(practiceResult(PriorGame)) * XP_PER_EMERALD

\* a practice session of a game that startGame lets start reports its completion
FairPractice(w) ==
    /\ ~state.isLocked[w]
    /\ OnComplete(practiceResult(w), FALSE, MaxXpFair)

FairTest == OnComplete(testResult(PriorGame, RestTestScore, 0), TRUE, MaxXpFair)

NextFair ==
    \/ \E w \in GameType : FairPractice(w)
    \/ FairTest

SpecFair ==
    /\ Init
    /\ [][NextFair]_vars
    /\ WF_vars(\E w \in GameType : FairPractice(w))

\* C24 (resting always ends): a locked game v is unlocked once practice
\* completions of other games keep occurring: each of them raises the unlock
\* counter of v by one, and the one that finds it at 2, the third since the
\* lock, unlocks v; a test completion changes no lock and no unlock counter.
\* (The run has room for three more practice completions when v is locked.)
C24_RestingEnds ==
    /\ \A v \in GameType :
          (locked(state, v) /\ state.xp + UNLOCK_THRESHOLD * PracticeXp <= MaxXpFair) ~> ~locked(state, v)
    /\ [][\A v \in GameType : \A w \in GameType \ {v} :
            (FairPractice(w) /\ locked(state, v)) =>
                IF unlockCount(state, v) = 2
                THEN ~locked(state', v)
                ELSE /\ locked(state', v)
                     /\ unlockCount(state', v) = unlockCount(state, v) + 1]_vars
    /\ [][FairTest =>
            /\ state'.isLocked = state.isLocked
            /\ state'.otherSuccessesSinceLock = state.otherSuccessesSinceLock]_vars

\* PriorGame was tested, locked, and unlocked again by three completions of
\* another game
C24_Witness ==
    \E w \in GameType \ {PriorGame} :
        /\ ~locked(state, PriorGame)
        /\ counts(state, PriorGame) = 0
        /\ PriorGame \in DOMAIN state.testScores
        /\ counts(state, w) = 3
        /\ state.xp = 400


(***************************************************************************)
(* The question index and the correct count of a test session (SpecSession)*)
(***************************************************************************)

\* the mounted GameScreen runs a test
inTest == currentView = "game" /\ isTestMode

\* handleAnswer(correct) scheduled a completion timeout
reported == completeTimers' # completeTimers

\* the result held by the completion timeout scheduled last
lastReported == completeTimers'[Len(completeTimers')].result

\* C26 as stated (test completion condition): in a test session the question
\* index and the correct count change only on a correct answer and stay
\* equal; a wrong answer changes neither and does not end the test; a result
\* is reported only on a correct answer that brings the correct count to at
\* least 10, and its score is not below 100.
C26_TestCompletion ==
    [][\A correct \in BOOLEAN :
          (isTestMode /\ HandleAnswer(correct)) =>
              /\ ~correct => /\ UNCHANGED <<qIndex, correctCount>>
                             /\ UNCHANGED <<currentView, completeTimers, quitTimers>>
              /\ qIndex = correctCount => qIndex' = correctCount'
              /\ reported => /\ correct
                             /\ correctCount' >= TEST_QUESTIONS
                             /\ lastReported.score >= PERCENT]_vars

\* C26 amended: the index and the count are equal up to the answer that
\* finishes the test; that answer and every later correct answer raise the
\* count alone, so the index stays at 9 while the count is 10 or more. The
\* rest is as stated.
C26_TestCompletionAmended ==
    /\ [](inTest => qIndex = IF correctCount < TEST_QUESTIONS THEN correctCount
                             ELSE TEST_QUESTIONS - 1)
    /\ [][\A correct \in BOOLEAN :
             (isTestMode /\ HandleAnswer(correct)) =>
                 /\ ~correct => /\ UNCHANGED <<qIndex, correctCount>>
                                /\ UNCHANGED <<currentView, completeTimers, quitTimers>>
                 /\ correct => /\ correctCount' = correctCount + 1
                               /\ reported <=> correctCount' >= TEST_QUESTIONS
                 /\ reported => /\ correct
                                /\ qIndex' = qIndex
                                /\ lastReported.score >= PERCENT]_vars

\* a test session whose tenth correct answer has scheduled the report of
\* score 100
C26_Witness ==
    /\ inTest
    /\ correctCount = TEST_QUESTIONS
    /\ qIndex = TEST_QUESTIONS - 1
    /\ Len(completeTimers) = 1
    /\ completeTimers[1].test
    /\ completeTimers[1].result.score = PERCENT


(***************************************************************************)
(* SpecSpeech: calls of speak on every platform, their awaits and their    *)
(* timeouts resolving in any order, and the audio they start ending        *)
(***************************************************************************)

MaxSpeak == 3

InitSpeech ==
    /\ state = INITIAL_STATE
    /\ settings = INITIAL_SETTINGS
    /\ currentView = "hub"
    /\ activeGame = NoGame
    /\ playMode = "TIMED"
    /\ isTestMode = FALSE
    /\ lastGameResult = NoResult
    /\ qIndex = 0 /\ correctCount = 0 /\ hearts = 0 /\ timeLeft = 0
    /\ session = 0 /\ completeTimers = << >> /\ quitTimers = 0
    /\ storage = [data |-> stringifyState(INITIAL_STATE),
                  settings |-> stringifySettings(INITIAL_SETTINGS)]
    /\ phase = "running"
    /\ env \in Env
    /\ speechStart

\* a component calls speak
SpeakCall ==
    /\ currentSpeechToken < MaxSpeak
    /\ speak

NextSpeech ==
    \/ SpeakCall
    \/ \E token \in 1..MaxSpeak, base64Audio \in BOOLEAN :
          generateContentResolves(token, base64Audio)
    \/ \E token \in 1..MaxSpeak : generateContentRejects(token)
    \/ \E token \in 1..MaxSpeak : decodeAudioDataResolves(token)
    \/ \E token \in 1..MaxSpeak : decodeAudioDataRejects(token)
    \/ \E token \in 1..MaxSpeak : speakTimeout(token)
    \/ \E token \in 1..MaxSpeak : sourceEnded(token)
    \/ utteranceEnded

SpecSpeech == InitSpeech /\ [][NextSpeech]_vars

\* the tokens of the calls whose audio is audible or queued to be spoken
audible == sources \cup {utterances[i] : i \in 1..Len(utterances)}

\* C27 (speech supersession): whatever the order in which the awaits and the
\* timeouts of the calls of speak resolve, only the most recent call has audio
\* playing, and at most one piece of it; a call of speak leaves nothing
\* playing that an earlier call started; and a call starts its audio only
\* while it is the most recent one.
C27_Supersession ==
    /\ [](audible \subseteq {currentSpeechToken})
    /\ [](Cardinality(sources) + Len(utterances) <= 1)
    /\ [][speak => audible' = {}]_vars
    /\ [][\A token \in 1..MaxSpeak :
             (token \in audible' /\ token \notin audible) =>
                 /\ token = currentSpeechToken
                 /\ token = currentSpeechToken']_vars

\* the second call plays its generated audio while the first call, made
\* before it, still awaits the decoding of its own, and the third call has
\* not been made
C27_Witness ==
    /\ currentSpeechToken = 2
    /\ speakCalls = <<"decodeAudioData", "done">>
    /\ sources = {2}
    /\ activeAudioSource = 2

====
